---------------------------- MODULE Spec2Model ----------------------------
(***************************************************************************)
(* waffle_utils/file/io.py: the filesystem helpers, with                   *)
(* copy_files_to_directory and get_extension modelled statement by         *)
(* statement over a filesystem of path strings.                            *)
(*                                                                         *)
(* A path is a string, as in Python; the pathlib / os.path / str calls the *)
(* source makes (Path(...), str(...), .parent, .suffix, str.replace,       *)
(* os.path.commonpath, glob, mkdir, shutil.copy) are operators on those    *)
(* strings and on the filesystem value.  The working directory is ".",     *)
(* the root is "/"; there are no symbolic links and no "..".               *)
(***************************************************************************)
EXTENDS Integers, Sequences, FiniteSets, TLC

VARIABLES
    fs,          \* the filesystem: [dirs: set of paths, files: path -> contents]
    pc,          \* "idle" | "loop" | "returned" | "raised"
    ncalls,      \* calls of save_json / make_directory made so far
    op,          \* the call of get_extension / copy_files_to_directory under way
    src_list,    \* io.py:184-197, what is left of the resolved source list
    src_prefix,  \* io.py:186/193/197
    log,         \* one record per iteration of the loop at io.py:215-219
    ret,         \* the value returned or the exception raised
    fs0          \* the filesystem when the call under way was made

vars == <<fs, pc, ncalls, op, src_list, src_prefix, log, ret, fs0>>

\* How many save_json / make_directory calls prepare the filesystem.
MaxCalls == 4

---------------------------------------------------------------------------
(* Strings *)

Char(s, i) == SubSeq(s, i, i)

Drop(s, n) == SubSeq(s, n + 1, Len(s))

StartsWith(s, t) == Len(t) <= Len(s) /\ SubSeq(s, 1, Len(t)) = t

HasChar(s, c) == \E i \in 1..Len(s) : Char(s, i) = c

FirstIndex(s, c) == CHOOSE i \in 1..Len(s) : Char(s, i) = c /\ \A j \in 1..(i - 1) : Char(s, j) # c

\* str.rfind(c), 1-based; 0 when c does not occur.
LastIndex(s, c) ==
    IF HasChar(s, c)
    THEN CHOOSE i \in 1..Len(s) : Char(s, i) = c /\ \A j \in (i + 1)..Len(s) : Char(s, j) # c
    ELSE 0

\* str.split("/")
RECURSIVE Split(_)
Split(s) ==
    IF HasChar(s, "/")
    THEN <<SubSeq(s, 1, FirstIndex(s, "/") - 1)>> \o Split(Drop(s, FirstIndex(s, "/")))
    ELSE <<s>>

\* "/".join(parts)
RECURSIVE Join(_)
Join(parts) ==
    IF Len(parts) = 0 THEN ""
    ELSE IF Len(parts) = 1 THEN parts[1]
    ELSE parts[1] \o "/" \o Join(Tail(parts))

\* str.replace(old, new): every non-overlapping occurrence, left to right; an
\* empty old matches before every character and at the end.
RECURSIVE ReplaceFrom(_, _, _)
ReplaceFrom(s, old, new) ==
    IF Len(old) = 0
    THEN IF Len(s) = 0 THEN new ELSE new \o Char(s, 1) \o ReplaceFrom(Drop(s, 1), old, new)
    ELSE IF Len(s) < Len(old) THEN s
    ELSE IF StartsWith(s, old) THEN new \o ReplaceFrom(Drop(s, Len(old)), old, new)
    ELSE Char(s, 1) \o ReplaceFrom(Drop(s, 1), old, new)

Replace(s, old, new) == ReplaceFrom(s, old, new)

---------------------------------------------------------------------------
(* pathlib.PurePosixPath *)

\* The components of a path string: empty and "." components are dropped.
Parts(s) == SelectSeq(Split(s), LAMBDA c : c # "" /\ c # ".")

\* The root of a path string: "/", "//" (exactly two leading slashes) or "".
Root(s) ==
    IF ~StartsWith(s, "/") THEN ""
    ELSE IF StartsWith(s, "//") /\ ~StartsWith(s, "///") THEN "//"
    ELSE "/"

FromParts(root, parts) ==
    IF root = "" /\ Len(parts) = 0 THEN "." ELSE root \o Join(parts)

\* str(Path(s))
PathStr(s) == FromParts(Root(s), Parts(s))

\* str(Path(s).parent)
Parent(s) ==
    IF Len(Parts(s)) = 0 THEN PathStr(s)
    ELSE FromParts(Root(s), SubSeq(Parts(s), 1, Len(Parts(s)) - 1))

\* Path(s).name
Name(s) == IF Len(Parts(s)) = 0 THEN "" ELSE Parts(s)[Len(Parts(s))]

\* Path(s).suffix: from the last dot of the name, unless that dot is the first
\* or the last character of the name.
Suffix(s) ==
    LET name == Name(s)
        i    == LastIndex(name, ".")
    IN  IF 1 < i /\ i < Len(name) THEN SubSeq(name, i, Len(name)) ELSE ""

\* p / name
JoinPath(p, name) == PathStr(p \o "/" \o name)

\* p and every ancestor of p, up to "." or the root.
Ancestors(p) ==
    { FromParts(Root(p), SubSeq(Parts(p), 1, k)) : k \in 0..Len(Parts(p)) }

---------------------------------------------------------------------------
(* The filesystem *)

IsDir(f, p) == p \in f.dirs

IsFile(f, p) == p \in DOMAIN f.files

Exists(f, p) == IsDir(f, p) \/ IsFile(f, p)

Entries(f) == f.dirs \cup DOMAIN f.files

WriteFile(f, p, c) ==
    [f EXCEPT !.files = [q \in (DOMAIN f.files) \cup {p} |-> IF q = p THEN c ELSE f.files[q]]]

\* Path(p).mkdir(mode=0o766, parents=True, exist_ok=True): p and its missing
\* ancestors become directories; it raises when p is a file (FileExistsError)
\* or lies under a file (NotADirectoryError), before creating anything.
Mkdir(f, p) ==
    IF IsFile(f, p) THEN [exc |-> "FileExistsError", fs |-> f]
    ELSE IF \E a \in Ancestors(p) : IsFile(f, a) THEN [exc |-> "NotADirectoryError", fs |-> f]
    ELSE [exc |-> "", fs |-> [f EXCEPT !.dirs = @ \cup Ancestors(p)]]

\* open(p, "w") and a write of c.
OpenWrite(f, p, c) ==
    IF IsDir(f, p) THEN [exc |-> "IsADirectoryError", fs |-> f]
    ELSE IF IsFile(f, Parent(p)) THEN [exc |-> "NotADirectoryError", fs |-> f]
    ELSE IF ~IsDir(f, Parent(p)) THEN [exc |-> "FileNotFoundError", fs |-> f]
    ELSE [exc |-> "", fs |-> WriteFile(f, p, c)]

\* shutil.copy(src, dst) of a file src: into dst when dst is a directory,
\* onto dst otherwise; copying a file onto itself raises SameFileError.
CopyTarget(f, src, dst) == IF IsDir(f, dst) THEN JoinPath(dst, Name(src)) ELSE dst

ShutilCopy(f, src, dst) ==
    IF CopyTarget(f, src, dst) = src THEN [exc |-> "SameFileError", fs |-> f]
    ELSE OpenWrite(f, CopyTarget(f, src, dst), f.files[src])

\* Every entry under root, as Path(root).glob("**/*") lists them.
Glob(f, root) == { p \in Entries(f) : p # root /\ root \in Ancestors(p) }

\* json.dump(obj, f, ensure_ascii=False, indent=4) of a string obj.
JsonDump(obj) == "\"" \o obj \o "\""

---------------------------------------------------------------------------
(* The paths and the calls the model makes *)

\* Files that save_json writes; each is written with its own path as the object.
FilePaths == {"a/a", "a/E", "a/q.t", "a/r.u", "f", "f.t"}

\* Directories that make_directory makes.
DirPaths == {"E", "E/q.t/q.t", "E.d", "a/e"}

PathSrc(p) == [kind |-> "path", path |-> p, items |-> <<>>]

ListSrc(items) == [kind |-> "list", path |-> "", items |-> items]

\* The src arguments of copy_files_to_directory.
Sources ==
    { PathSrc(p) : p \in {"a", "f", "f.t", "zz"} }
    \cup { ListSrc(l) : l \in { <<"a/q.t">>, <<"a/q.t", "a/q.t">>,
                               <<"a/a", "a/E", "a/q.t">>, <<>> } }

\* The dst arguments of copy_files_to_directory.
Destinations == {"E", "E.d"}

\* The fp arguments of get_extension.
ExtensionPaths == {"a", "a/e", "f.t", "f", "zz"}

NoSrc == PathSrc("")

NoOp == [name |-> "", src |-> NoSrc, dst |-> "", create |-> FALSE, fp |-> ""]

None == [kind |-> "none", exc |-> "", line |-> 0, val |-> <<>>]

Raise(exc, line) == [kind |-> "exc", exc |-> exc, line |-> line, val |-> <<>>]

NoList == [kind |-> "list", rest |-> <<>>, root |-> "", base |-> {}, yielded |-> {}]

EmptyFs == [dirs |-> {".", "/"}, files |-> [p \in {} |-> ""]]

Init ==
    /\ fs = EmptyFs
    /\ pc = "idle"
    /\ ncalls = 0
    /\ op = NoOp
    /\ src_list = NoList
    /\ src_prefix = ""
    /\ log = <<>>
    /\ ret = None
    /\ fs0 = EmptyFs

---------------------------------------------------------------------------
(* save_json and make_directory *)

\* io.py:22-27; an exception leaves the caller with the filesystem as the
\* failing statement found it.
SaveJson(f, obj, fp, create_directory) ==
    LET m == IF create_directory THEN Mkdir(f, Parent(PathStr(fp))) ELSE [exc |-> "", fs |-> f]
    IN  IF m.exc # "" THEN m ELSE OpenWrite(m.fs, PathStr(fp), JsonDump(obj))

save_json(obj, fp, create_directory) ==
    /\ pc = "idle"
    /\ ncalls < MaxCalls
    /\ fs' = SaveJson(fs, obj, fp, create_directory).fs
    /\ ncalls' = ncalls + 1
    /\ UNCHANGED <<pc, op, src_list, src_prefix, log, ret, fs0>>

make_directory(src) ==
    /\ pc = "idle"
    /\ ncalls < MaxCalls
    /\ fs' = Mkdir(fs, PathStr(src)).fs
    /\ ncalls' = ncalls + 1
    /\ UNCHANGED <<pc, op, src_list, src_prefix, log, ret, fs0>>

---------------------------------------------------------------------------
(* get_extension, io.py:134-162 *)

\* p.suffix[1:]
SuffixNoDot(p) == Drop(Suffix(p), 1)

\* io.py:151 without the is_file() filter: directories counted too.
DirExtensionsAnyEntry(f, fp) == { SuffixNoDot(p) : p \in Glob(f, fp) }

\* io.py:151: {p.suffix[1:] for p in fp.glob("**/*") if p.is_file()}
DirExtensions(f, fp) == { SuffixNoDot(p) : p \in { q \in Glob(f, fp) : IsFile(f, q) } }

\* list(exts): the elements of the set, each once, in an order Python chooses.
ListsOf(S) ==
    { l \in [1..Cardinality(S) -> S] : \A i, j \in 1..Cardinality(S) : i # j => l[i] # l[j] }

Str(s) == [kind |-> "str", exc |-> "", line |-> 0, val |-> <<s>>]

List(l) == [kind |-> "list", exc |-> "", line |-> 0, val |-> l]

\* The values get_extension(fp) may return, or the exception it raises.
GetExtension(f, fp) ==
    IF IsDir(f, fp)
    THEN IF Cardinality(DirExtensions(f, fp)) = 1
         THEN { Str(e) : e \in DirExtensions(f, fp) }
         ELSE { List(l) : l \in ListsOf(DirExtensions(f, fp)) }
    ELSE IF IsFile(f, fp) THEN { Str(SuffixNoDot(fp)) }
    ELSE { Raise("ValueError", 162) }

get_extension(fp) ==
    /\ pc = "idle"
    /\ op' = [NoOp EXCEPT !.name = "get_extension", !.fp = fp]
    /\ fs0' = fs
    /\ ret' \in GetExtension(fs, PathStr(fp))
    /\ pc' = IF ret'.kind = "exc" THEN "raised" ELSE "returned"
    /\ UNCHANGED <<fs, ncalls, src_list, src_prefix, log>>

---------------------------------------------------------------------------
(* copy_files_to_directory, io.py:166-219 *)

\* os.path.commonpath(paths) of a non-empty list with every path absolute or
\* every path relative: the root, then the components every path starts with.
Agree(paths, k) ==
    \A i \in 1..Len(paths) :
        /\ Len(Parts(paths[i])) >= k
        /\ SubSeq(Parts(paths[i]), 1, k) = SubSeq(Parts(paths[1]), 1, k)

CommonPath(paths) ==
    LET k == CHOOSE n \in 0..Len(Parts(paths[1])) : Agree(paths, n) /\ ~Agree(paths, n + 1)
    IN  (IF StartsWith(paths[1], "/") THEN "/" ELSE "") \o Join(SubSeq(Parts(paths[1]), 1, k))

\* os.path.commonpath raises ValueError on an empty list and on a mix of
\* absolute and relative paths.
CommonPathRaises(paths) ==
    \/ Len(paths) = 0
    \/ \E i, j \in 1..Len(paths) : StartsWith(paths[i], "/") # StartsWith(paths[j], "/")

ListOf(items) == [kind |-> "list", rest |-> items, root |-> "", base |-> {}, yielded |-> {}]

GlobOf(f, root) == [kind |-> "glob", rest |-> <<>>, root |-> root, base |-> Glob(f, root), yielded |-> {}]

\* io.py:184-200: the resolved source list and the source prefix, or the
\* exception.  The generator of a directory source has produced nothing yet.
Resolve(f, src) ==
    IF src.kind = "list"
    THEN IF CommonPathRaises(src.items)
         THEN [exc |-> Raise("ValueError", 186), list |-> NoList, prefix |-> ""]
         ELSE [exc |-> None,
               list |-> ListOf([i \in 1..Len(src.items) |-> PathStr(src.items[i])]),
               prefix |-> CommonPath(src.items)]
    ELSE IF IsFile(f, PathStr(src.path))
    THEN [exc |-> None, list |-> ListOf(<<PathStr(src.path)>>), prefix |-> Parent(src.path)]
    ELSE IF IsDir(f, PathStr(src.path))
    THEN [exc |-> None, list |-> GlobOf(f, PathStr(src.path)), prefix |-> PathStr(src.path)]
    ELSE [exc |-> Raise("FileNotFoundError", 200), list |-> NoList, prefix |-> ""]

\* io.py:202-213 with the branches out of order: the directory is made before
\* the suffix is looked at.
CheckDestinationMakeFirst(f, dst, create_directory) ==
    LET m == IF create_directory THEN Mkdir(f, PathStr(dst)) ELSE [exc |-> "", fs |-> f]
    IN  IF m.exc # "" THEN [exc |-> Raise(m.exc, 208), fs |-> f]
        ELSE IF Suffix(PathStr(dst)) # "" THEN [exc |-> Raise("ValueError", 204), fs |-> m.fs]
        ELSE IF ~Exists(m.fs, PathStr(dst)) THEN [exc |-> Raise("FileNotFoundError", 211), fs |-> m.fs]
        ELSE [exc |-> None, fs |-> m.fs]

\* io.py:202-213: the destination is validated and, when asked for, made.
CheckDestination(f, dst, create_directory) ==
    IF Suffix(PathStr(dst)) # "" THEN [exc |-> Raise("ValueError", 204), fs |-> f]
    ELSE LET m == IF create_directory THEN Mkdir(f, PathStr(dst)) ELSE [exc |-> "", fs |-> f]
         IN  IF m.exc # "" THEN [exc |-> Raise(m.exc, 208), fs |-> f]
             ELSE IF ~Exists(m.fs, PathStr(dst))
             THEN [exc |-> Raise("FileNotFoundError", 211), fs |-> m.fs]
             ELSE [exc |-> None, fs |-> m.fs]

\* io.py:184-213 with the two halves out of order: the destination is handled
\* before the source is resolved.
PrologueDestinationFirst(f, src, dst, create_directory) ==
    LET c == CheckDestination(f, dst, create_directory)
        r == Resolve(f, src)
    IN  IF c.exc.kind = "exc" THEN [exc |-> c.exc, fs |-> c.fs, list |-> NoList, prefix |-> ""]
        ELSE IF r.exc.kind = "exc" THEN [exc |-> r.exc, fs |-> c.fs, list |-> NoList, prefix |-> ""]
        ELSE [exc |-> None, fs |-> c.fs,
              list |-> IF r.list.kind = "glob" THEN GlobOf(c.fs, r.list.root) ELSE r.list,
              prefix |-> r.prefix]

\* io.py:184-213: everything before the loop.  The generator of a directory
\* source first runs in the loop, so it lists the directory as the
\* destination check left it.
Prologue(f, src, dst, create_directory) ==
    LET r == Resolve(f, src)
        c == CheckDestination(f, dst, create_directory)
    IN  IF r.exc.kind = "exc" THEN [exc |-> r.exc, fs |-> f, list |-> NoList, prefix |-> ""]
        ELSE IF c.exc.kind = "exc" THEN [exc |-> c.exc, fs |-> c.fs, list |-> NoList, prefix |-> ""]
        ELSE [exc |-> None, fs |-> c.fs,
              list |-> IF r.list.kind = "glob" THEN GlobOf(c.fs, r.list.root) ELSE r.list,
              prefix |-> r.prefix]

copy_files_to_directory(src, dst, create_directory) ==
    /\ pc = "idle"
    /\ op' = [NoOp EXCEPT !.name = "copy_files_to_directory", !.src = src, !.dst = dst,
                          !.create = create_directory]
    /\ fs0' = fs
    /\ LET p == Prologue(fs, src, dst, create_directory)
       IN  /\ fs' = p.fs
           /\ src_list' = p.list
           /\ src_prefix' = p.prefix
           /\ ret' = p.exc
           /\ pc' = IF p.exc.kind = "exc" THEN "raised" ELSE "loop"
    /\ log' = <<>>
    /\ UNCHANGED ncalls

\* io.py:216
DstFile(src_file, prefix, dst) == PathStr(Replace(src_file, prefix, PathStr(dst)))

\* io.py:216-219, one iteration: what it leaves of the filesystem, and its record.
Iteration(f, src_file, prefix, dst) ==
    LET dst_file == DstFile(src_file, prefix, dst)
        m == Mkdir(f, Parent(dst_file))
        c == IF m.exc = "" /\ IsFile(m.fs, src_file)
             THEN ShutilCopy(m.fs, src_file, dst_file)
             ELSE [exc |-> "", fs |-> m.fs]
    IN  [fs |-> c.fs,
         exc |-> IF m.exc # "" THEN Raise(m.exc, 217)
                 ELSE IF c.exc # "" THEN Raise(c.exc, 219)
                 ELSE None,
         rec |-> [src_file |-> src_file,
                  dst_file |-> dst_file,
                  made |-> m.fs.dirs \ f.dirs,
                  target |-> IF m.exc = "" /\ IsFile(m.fs, src_file) /\ c.exc = ""
                             THEN CopyTarget(m.fs, src_file, dst_file) ELSE "",
                  contents |-> IF IsFile(f, src_file) THEN f.files[src_file] ELSE ""]]

\* What the for statement at io.py:215 may bind src_file to next.  A list is
\* walked in order.  The glob generator runs while the loop changes the
\* filesystem: it produces every entry that was there when it started, and
\* may or may not produce an entry made under the source since.
NextSources ==
    IF src_list.kind = "list"
    THEN IF Len(src_list.rest) = 0 THEN {} ELSE { Head(src_list.rest) }
    ELSE (src_list.base \cup Glob(fs, src_list.root)) \ src_list.yielded

Exhausted ==
    IF src_list.kind = "list" THEN Len(src_list.rest) = 0
    ELSE src_list.base \subseteq src_list.yielded

Advance(src_file) ==
    IF src_list.kind = "list" THEN [src_list EXCEPT !.rest = Tail(@)]
    ELSE [src_list EXCEPT !.yielded = @ \cup {src_file}]

copy_loop_iteration ==
    /\ pc = "loop"
    /\ \E src_file \in NextSources :
        LET it == Iteration(fs, src_file, src_prefix, op.dst)
        IN  /\ fs' = it.fs
            /\ log' = Append(log, it.rec)
            /\ src_list' = Advance(src_file)
            /\ ret' = it.exc
            /\ pc' = IF it.exc.kind = "exc" THEN "raised" ELSE "loop"
    /\ UNCHANGED <<ncalls, op, src_prefix, fs0>>

copy_loop_end ==
    /\ pc = "loop"
    /\ Exhausted
    /\ pc' = "returned"
    /\ UNCHANGED <<fs, ncalls, op, src_list, src_prefix, log, ret, fs0>>

---------------------------------------------------------------------------

Next ==
    \/ \E fp \in FilePaths, cd \in BOOLEAN : save_json(fp, fp, cd)
    \/ \E d \in DirPaths : make_directory(d)
    \/ \E fp \in ExtensionPaths : get_extension(fp)
    \/ \E src \in Sources, dst \in Destinations, cd \in BOOLEAN :
          copy_files_to_directory(src, dst, cd)
    \/ copy_loop_iteration
    \/ copy_loop_end

Spec == Init /\ [][Next]_vars

---------------------------------------------------------------------------
(* What the claims speak of *)

IsCopy == op.name = "copy_files_to_directory"

IsGetExtension == op.name = "get_extension"

\* E/r for a path P/r: the components of p after those of prefix, under root.
ReRoot(p, prefix, root) ==
    FromParts(Root(root), Parts(root) \o SubSeq(Parts(p), Len(Parts(prefix)) + 1, Len(Parts(p))))

FilesUnder(f, d) == { p \in DOMAIN f.files : p # d /\ d \in Ancestors(p) }

DirsUnder(f, d) == { p \in f.dirs : p # d /\ d \in Ancestors(p) }

\* The destination root, its ancestors, and the paths under it.
InDestinationTree(p, root) == p \in Ancestors(root) \/ root \in Ancestors(p)

\* The extension of a file name: what follows its last dot, "" when it has no
\* dot or only a leading or a trailing one.
ExtensionOf(p) ==
    LET name == Name(p)
    IN  IF \E i \in 2..(Len(name) - 1) : Char(name, i) = "."
        THEN Drop(name, CHOOSE i \in 2..(Len(name) - 1) :
                            Char(name, i) = "." /\ ~HasChar(Drop(name, i), "."))
        ELSE ""

SourceIsDirectory == op.src.kind = "path" /\ IsDir(fs0, PathStr(op.src.path))

SourceResolves == Resolve(fs0, op.src).exc.kind = "none"

\* The call failed inside the loop: the last record of log is the failing entry.
FailedInLoop == IsCopy /\ pc = "raised" /\ Len(log) > 0

---------------------------------------------------------------------------
(* The claims *)

\* C1: after copy_files_to_directory(D, E) of an existing directory D returns,
\* every file D/r, at any depth, exists at E/r with the contents of D/r.
C1_DirectoryFilesCopied ==
    (IsCopy /\ pc = "returned" /\ SourceIsDirectory) =>
        \A p \in FilesUnder(fs0, PathStr(op.src.path)) :
            /\ IsFile(fs, ReRoot(p, PathStr(op.src.path), op.dst))
            /\ fs.files[ReRoot(p, PathStr(op.src.path), op.dst)] = fs0.files[p]

\* C2: for a non-empty list of existing files with common path X, each listed
\* file X/r is copied to E/r, whatever the length of the list.
C2_ListFilesCopied ==
    (/\ IsCopy /\ pc = "returned" /\ op.src.kind = "list" /\ Len(op.src.items) > 0
     /\ \A i \in 1..Len(op.src.items) : IsFile(fs0, PathStr(op.src.items[i]))) =>
        \A i \in 1..Len(op.src.items) :
            LET to == ReRoot(PathStr(op.src.items[i]), CommonPath(op.src.items), op.dst)
            IN  /\ IsFile(fs, to)
                /\ fs.files[to] = fs0.files[PathStr(op.src.items[i])]

\* C3: every resolved source path P/r is given the destination path E/r, and
\* two distinct source paths are never given, nor written to, the same one.
C3_DestinationsInjective ==
    IsCopy =>
        /\ \A i \in 1..Len(log) :
              log[i].dst_file = ReRoot(log[i].src_file, src_prefix, op.dst)
        /\ \A i, j \in 1..Len(log) :
              log[i].src_file # log[j].src_file =>
                  /\ log[i].dst_file # log[j].dst_file
                  /\ (log[i].target # "" => log[i].target # log[j].target)

\* C4: with a resolvable source and a suffix-free destination E that does not
\* exist, create_directory=false fails with FileNotFoundError (io.py:211) and
\* changes nothing; create_directory=true makes E and the call succeeds.
C4_MissingDestination ==
    (IsCopy /\ SourceResolves /\ Suffix(PathStr(op.dst)) = "" /\ ~Exists(fs0, PathStr(op.dst))) =>
        IF op.create
        THEN IsDir(fs, PathStr(op.dst)) /\ pc # "raised"
        ELSE pc = "raised" /\ ret = Raise("FileNotFoundError", 211) /\ fs = fs0

\* C5: a single source path that is neither a file nor a directory fails with
\* FileNotFoundError (io.py:200) and leaves the filesystem as it was, whatever
\* the destination and create_directory.
C5_SourceNotFound ==
    (/\ IsCopy /\ op.src.kind = "path"
     /\ ~IsFile(fs0, PathStr(op.src.path)) /\ ~IsDir(fs0, PathStr(op.src.path))) =>
        pc = "raised" /\ ret = Raise("FileNotFoundError", 200) /\ fs = fs0

\* C5's case: the source is missing, the destination is absent and
\* create_directory is true.
C5_Witness ==
    /\ IsCopy /\ op.src = PathSrc("zz") /\ op.create /\ op.dst = "E"
    /\ ~Exists(fs0, "E") /\ IsFile(fs0, "a/a")
    /\ pc = "raised"

\* C6: when the last component of the destination has a suffix, a call with a
\* resolvable source fails with ValueError (io.py:204) before anything is made
\* or copied, whether or not the path exists and whatever create_directory is.
C6_DestinationShape ==
    (IsCopy /\ SourceResolves /\ Suffix(PathStr(op.dst)) # "") =>
        pc = "raised" /\ ret = Raise("ValueError", 204) /\ fs = fs0

\* C6's case: the destination has a suffix, exists as a directory, and
\* create_directory is true; the source is a directory with a file in it.
C6_Witness ==
    /\ IsCopy /\ op.dst = "E.d" /\ IsDir(fs0, "E.d") /\ op.create
    /\ op.src = PathSrc("a") /\ IsFile(fs0, "a/q.t")
    /\ pc = "raised"

\* C7: get_extension of a directory returns a string exactly when the files
\* under it have one distinct extension, and otherwise a collection of exactly
\* the distinct extensions; of a file, the extension without the dot; of a path
\* that is neither, ValueError (io.py:162).  A file name without an extension
\* has the extension "".
C7_GetExtension ==
    IsGetExtension =>
        IF IsDir(fs0, PathStr(op.fp))
        THEN LET exts == { ExtensionOf(p) : p \in FilesUnder(fs0, PathStr(op.fp)) }
             IN  /\ pc = "returned"
                 /\ ret.kind = "str" <=> Cardinality(exts) = 1
                 /\ ret.kind = "str" => ret.val[1] \in exts
                 /\ ret.kind # "str" =>
                       ret.kind = "list" /\ { ret.val[i] : i \in 1..Len(ret.val) } = exts
        ELSE IF IsFile(fs0, PathStr(op.fp))
        THEN pc = "returned" /\ ret = Str(ExtensionOf(PathStr(op.fp)))
        ELSE pc = "raised" /\ ret = Raise("ValueError", 162)

\* C7's case: a directory whose files have the two extensions "t" and "u",
\* with a subdirectory beside them.
C7_Witness ==
    /\ IsGetExtension /\ op.fp = "a"
    /\ FilesUnder(fs0, "a") = {"a/q.t", "a/r.u"} /\ IsDir(fs0, "a/e")
    /\ ret = List(<<"u", "t">>)

\* C8: after a successful copy of a directory D, every subdirectory D/s, with
\* or without files in it, has its directory E/s.
C8_SubdirectoriesMade ==
    (IsCopy /\ pc = "returned" /\ SourceIsDirectory) =>
        \A s \in DirsUnder(fs0, PathStr(op.src.path)) :
            IsDir(fs, ReRoot(s, PathStr(op.src.path), op.dst))

\* C9: when the k-th entry fails, every file copied for the entries before it
\* is at its destination with the contents of its source, and nothing after
\* the k-th entry has been taken from the source list.
C9_NoRollback ==
    FailedInLoop =>
        /\ \A i \in 1..(Len(log) - 1) :
              log[i].target # "" =>
                  /\ IsFile(fs, log[i].target)
                  /\ fs.files[log[i].target] = log[i].contents
        /\ src_list.kind = "list" =>
              Len(src_list.rest) + Len(log) = Len(Resolve(fs0, op.src).list.rest)
        /\ src_list.kind = "glob" => Cardinality(src_list.yielded) = Len(log)

\* C10: every directory made and every file written by a call is the
\* destination root, one of its ancestors, or a path under it.
C10_Containment ==
    IsCopy =>
        /\ \A d \in fs.dirs \ fs0.dirs : InDestinationTree(d, PathStr(op.dst))
        /\ \A i \in 1..Len(log) :
              log[i].target # "" => InDestinationTree(log[i].target, PathStr(op.dst))

===========================================================================
